---------------------------- MODULE Spec2Model ----------------------------
(***************************************************************************)
(* Model of src/main.py: a command-line driver that parses three inputs,   *)
(* builds the yt-dlp options dictionary, hands one URL to YoutubeDL and    *)
(* reports the outcome.                                                    *)
(*                                                                         *)
(* One run of the script is one behaviour.  The command line is drawn in   *)
(* Init; every statement of main() and download_audio() is one action.     *)
(* The YoutubeDL object is an external collaborator: each of its three     *)
(* entry points used by the script (constructor, download, __exit__)       *)
(* either returns or raises one of Failures, chosen nondeterministically.  *)
(* download is split into a call and a completion, because the script      *)
(* blocks on it; the constructor and __exit__ are local and atomic.        *)
(* Strings are TLA+ strings, built with \o exactly as the f-strings and    *)
(* print() build them.  An optional value (Python None or a string) is a   *)
(* sequence of length 0 or 1.  Signals delivered from outside the process  *)
(* and write errors on the standard streams are not part of the model.     *)
(***************************************************************************)
EXTENDS Integers, Sequences, FiniteSets, TLC

VARIABLES
    argv,            \* sys.argv[1:]
    pc,              \* the statement the interpreter is about to execute
    args,            \* the argparse Namespace, <<>> before parse_args returns
    ydl_opts,        \* the options dictionary, <<>> before line 34 ran
    constructed,     \* the params of every YoutubeDL(...) call made so far
    downloads,       \* every ydl.download(...) call made so far, with its outcome
    closes,          \* the number of YoutubeDL.__exit__ calls made so far
    raised,          \* every exception the collaborator raised, with its origin
    exc,             \* the exception in flight (optional)
    stdout,          \* lines written to sys.stdout
    stderr,          \* lines written to sys.stderr
    exit_status,     \* the process exit status (optional)
    steps            \* the statements executed so far, in order

vars == <<argv, pc, args, ydl_opts, constructed, downloads, closes, raised,
          exc, stdout, stderr, exit_status, steps>>

---------------------------------------------------------------------------
(* Bounds and input alphabets                                              *)

MaxArgs == 5

OptionStrings == {"-o", "--output", "--ffmpeg-location"}

ArgValues == {"", "music", "yt/v1"}

Tokens == OptionStrings \cup ArgValues

RECURSIVE SeqsUpTo(_, _)
SeqsUpTo(S, n) ==
    IF n = 0 THEN {<<>>}
    ELSE LET shorter == SeqsUpTo(S, n - 1)
         IN  shorter \cup {Append(s, t) : s \in {q \in shorter : Len(q) = n - 1}, t \in S}

Range(s) == {s[i] : i \in DOMAIN s}

None == <<>>

Some(v) == <<v>>

---------------------------------------------------------------------------
(* argparse: main(), lines 61-75                                           *)

(* mutant: no default directory *)
OutputDefault_Empty == ""

OutputDefault == "."

FfmpegLocationDefault == None

Dest(flag) == IF flag \in {"-o", "--output"} THEN "output" ELSE "ffmpeg_location"

ParseError == [error |-> TRUE, url |-> None, output |-> "", ffmpeg_location |-> None]

NamespaceDefaults ==
    [error |-> FALSE, url |-> None, output |-> OutputDefault,
     ffmpeg_location |-> FfmpegLocationDefault]

SetOption(ns, flag, value) ==
    IF Dest(flag) = "output"
    THEN [ns EXCEPT !.output = value]
    ELSE [ns EXCEPT !.ffmpeg_location = Some(value)]

RECURSIVE ParseFrom(_, _)
ParseFrom(ts, ns) ==
    IF ts = <<>>
    THEN IF ns.url = None THEN ParseError ELSE ns
    ELSE IF Head(ts) \in OptionStrings
         THEN IF Len(ts) >= 2 /\ ts[2] \notin OptionStrings
              THEN ParseFrom(SubSeq(ts, 3, Len(ts)), SetOption(ns, ts[1], ts[2]))
              ELSE ParseError
         ELSE IF ns.url = None
              THEN ParseFrom(Tail(ts), [ns EXCEPT !.url = Some(Head(ts))])
              ELSE ParseError

parse_args(ts) == ParseFrom(ts, NamespaceDefaults)

UsageError == "usage: error"

---------------------------------------------------------------------------
(* download_audio(), lines 34-57                                           *)

(* mutant: playlist expansion left at the library's default *)
BuildOpts_Playlist(output_dir) ==
    [format         |-> "bestaudio/best",
     outtmpl        |-> output_dir \o "/%(title)s.%(ext)s",
     postprocessors |-> << [key              |-> "FFmpegExtractAudio",
                            preferredcodec   |-> "mp3",
                            preferredquality |-> "192"] >>,
     quiet          |-> FALSE,
     noplaylist     |-> FALSE]

BuildOpts(output_dir) ==
    [format         |-> "bestaudio/best",
     outtmpl        |-> output_dir \o "/%(title)s.%(ext)s",
     postprocessors |-> << [key              |-> "FFmpegExtractAudio",
                            preferredcodec   |-> "mp3",
                            preferredquality |-> "192"] >>,
     quiet          |-> FALSE,
     noplaylist     |-> TRUE]

Truthy(opt) == opt # None /\ opt[1] # ""

(* mutant: the path is stored under another key *)
WithFfmpegLocation_WrongKey(opts, ffmpeg_location) ==
    IF Truthy(ffmpeg_location)
    THEN opts @@ [ffmpeg |-> ffmpeg_location[1]]
    ELSE opts

WithFfmpegLocation(opts, ffmpeg_location) ==
    IF Truthy(ffmpeg_location)
    THEN opts @@ [ffmpeg_location |-> ffmpeg_location[1]]
    ELSE opts

DownloadingMessage(url) == "Downloading and converting: " \o url

CompleteMessage(output_dir) == "Download complete! MP3 saved to " \o " " \o output_dir

ErrorMessage(e) == "Error: " \o e.msg

(* mutant: the handler catches the downloader's own error class only *)
ExceptClause_DownloadError == "DownloadError"

ExceptClause == "Exception"

Catches(cls, e) == cls \in Range(e.mro)

TracebackMessage(e) == "Traceback (most recent call last): " \o e.msg

(* What the collaborator may raise: the four kinds of failure the tool's   *)
(* description names, each with the classes it is an instance of.          *)
Failures ==
    { [mro |-> <<"DownloadError", "YoutubeDLError", "Exception", "BaseException">>,
       msg |-> "ERROR: unable to download webpage"],
      [mro |-> <<"DownloadError", "YoutubeDLError", "Exception", "BaseException">>,
       msg |-> "ERROR: Video unavailable"],
      [mro |-> <<"PostProcessingError", "YoutubeDLError", "Exception", "BaseException">>,
       msg |-> "ffprobe and ffmpeg not found"],
      [mro |-> <<"PermissionError", "OSError", "Exception", "BaseException">>,
       msg |-> "[Errno 13] Permission denied"] }

RetCodes == {0, 1}

---------------------------------------------------------------------------
(* The state after the interpreter started the script                      *)

Init ==
    /\ argv \in SeqsUpTo(Tokens, MaxArgs)
    /\ pc = "parse_args"
    /\ args = <<>>
    /\ ydl_opts = <<>>
    /\ constructed = <<>>
    /\ downloads = <<>>
    /\ closes = 0
    /\ raised = <<>>
    /\ exc = None
    /\ stdout = <<>>
    /\ stderr = <<>>
    /\ exit_status = None
    /\ steps = <<>>

Did(step) == steps' = Append(steps, step)

(* line 75: parser.parse_args(); a usage error ends the process, status 2  *)
ParseArgs ==
    /\ pc = "parse_args"
    /\ Did("parse_args")
    /\ LET ns == parse_args(argv)
       IN  IF ns.error
           THEN /\ stderr' = Append(stderr, UsageError)
                /\ exit_status' = Some(2)
                /\ pc' = "exited"
                /\ args' = args
           ELSE /\ args' = [url |-> ns.url[1], output |-> ns.output,
                            ffmpeg_location |-> ns.ffmpeg_location]
                /\ pc' = "build_opts"
                /\ UNCHANGED <<stderr, exit_status>>
    /\ UNCHANGED <<argv, ydl_opts, constructed, downloads, closes, raised, exc, stdout>>

(* lines 77 and 34-44: the call binds output_dir = args.output             *)
BuildOptions ==
    /\ pc = "build_opts"
    /\ Did("build_opts")
    /\ ydl_opts' = BuildOpts(args.output)
    /\ pc' = "ffmpeg_location"
    /\ UNCHANGED <<argv, args, constructed, downloads, closes, raised, exc,
                   stdout, stderr, exit_status>>

(* lines 46-48 *)
SetFfmpegLocation ==
    /\ pc = "ffmpeg_location"
    /\ Did("ffmpeg_location")
    /\ ydl_opts' = WithFfmpegLocation(ydl_opts, args.ffmpeg_location)
    /\ pc' = "YoutubeDL"
    /\ UNCHANGED <<argv, args, constructed, downloads, closes, raised, exc,
                   stdout, stderr, exit_status>>

(* line 51: YoutubeDL(ydl_opts) and __enter__; a raise here is outside the *)
(* with block, so __exit__ is not called                                   *)
Construct ==
    /\ pc = "YoutubeDL"
    /\ Did("YoutubeDL")
    /\ constructed' = Append(constructed, ydl_opts)
    /\ \/ /\ pc' = "print_downloading"
          /\ UNCHANGED <<raised, exc>>
       \/ \E e \in Failures :
             /\ raised' = Append(raised, [by |-> "YoutubeDL", e |-> e])
             /\ exc' = Some(e)
             /\ pc' = "except"
    /\ UNCHANGED <<argv, args, ydl_opts, downloads, closes, stdout, stderr, exit_status>>

(* mutant: the progress message is dropped *)
PrintDownloading_Silent ==
    /\ pc = "print_downloading"
    /\ pc' = "download"
    /\ UNCHANGED <<argv, args, ydl_opts, constructed, downloads, closes, raised,
                   exc, stdout, stderr, exit_status, steps>>

(* line 52 *)
PrintDownloading ==
    /\ pc = "print_downloading"
    /\ Did("print_downloading")
    /\ stdout' = Append(stdout, DownloadingMessage(args.url))
    /\ pc' = "download"
    /\ UNCHANGED <<argv, args, ydl_opts, constructed, downloads, closes, raised,
                   exc, stderr, exit_status>>

(* mutant: the script stops waiting for the download and reports a timeout *)
DownloadCall_Timeout ==
    /\ pc = "download"
    /\ Did("download")
    /\ downloads' = Append(downloads, [urls |-> <<args.url>>, outcome |-> "pending"])
    /\ \/ /\ pc' = "in_download"
          /\ exc' = exc
       \/ /\ pc' = "__exit__"
          /\ exc' = Some([mro |-> <<"TimeoutError", "OSError", "Exception", "BaseException">>,
                          msg |-> "timed out"])
    /\ UNCHANGED <<argv, args, ydl_opts, constructed, closes, raised,
                   stdout, stderr, exit_status>>

(* line 53: the call; the script blocks until the collaborator answers     *)
DownloadCall ==
    /\ pc = "download"
    /\ Did("download")
    /\ downloads' = Append(downloads, [urls |-> <<args.url>>, outcome |-> "pending"])
    /\ pc' = "in_download"
    /\ UNCHANGED <<argv, args, ydl_opts, constructed, closes, raised, exc,
                   stdout, stderr, exit_status>>

(* the collaborator returns a status code, which line 53 discards          *)
DownloadReturns ==
    /\ pc = "in_download"
    /\ \E rc \in RetCodes :
          downloads' = [downloads EXCEPT ![Len(downloads)].outcome = "returned"]
    /\ pc' = "print_complete"
    /\ UNCHANGED <<argv, args, ydl_opts, constructed, closes, raised, exc,
                   stdout, stderr, exit_status, steps>>

(* the collaborator raises; the with statement will call __exit__          *)
DownloadRaises ==
    /\ pc = "in_download"
    /\ \E e \in Failures :
          /\ raised' = Append(raised, [by |-> "download", e |-> e])
          /\ exc' = Some(e)
    /\ downloads' = [downloads EXCEPT ![Len(downloads)].outcome = "raised"]
    /\ pc' = "__exit__"
    /\ UNCHANGED <<argv, args, ydl_opts, constructed, closes, stdout, stderr,
                   exit_status, steps>>

(* line 54 *)
PrintComplete ==
    /\ pc = "print_complete"
    /\ Did("print_complete")
    /\ stdout' = Append(stdout, CompleteMessage(args.output))
    /\ pc' = "__exit__"
    /\ UNCHANGED <<argv, args, ydl_opts, constructed, downloads, closes, raised,
                   exc, stderr, exit_status>>

(* line 51, leaving the with block: YoutubeDL.__exit__ returns None, so an *)
(* exception in flight keeps propagating; if __exit__ itself raises, that  *)
(* exception replaces it                                                   *)
ExitContext ==
    /\ pc = "__exit__"
    /\ Did("__exit__")
    /\ closes' = closes + 1
    /\ \/ /\ UNCHANGED <<raised, exc>>
          /\ pc' = IF exc = None THEN "return" ELSE "except"
       \/ \E e \in Failures :
             /\ raised' = Append(raised, [by |-> "__exit__", e |-> e])
             /\ exc' = Some(e)
             /\ pc' = "except"
    /\ UNCHANGED <<argv, args, ydl_opts, constructed, downloads, stdout, stderr,
                   exit_status>>

(* mutant: after reporting the first failure the handler tries the download again *)
ExceptHandler_Retry ==
    /\ pc = "except"
    /\ Did("print_error")
    /\ stderr' = Append(stderr, ErrorMessage(exc[1]))
    /\ pc' = IF Len(downloads) = 1 THEN "download" ELSE "sys_exit"
    /\ UNCHANGED <<argv, args, ydl_opts, constructed, downloads, closes, raised,
                   exc, stdout, exit_status>>

(* lines 55-56: except Exception as e: print(..., file=sys.stderr); an     *)
(* exception the clause does not catch leaves main() and the interpreter   *)
(* prints its traceback and exits with status 1                            *)
ExceptHandler ==
    /\ pc = "except"
    /\ IF Catches(ExceptClause, exc[1])
       THEN /\ Did("print_error")
            /\ stderr' = Append(stderr, ErrorMessage(exc[1]))
            /\ pc' = "sys_exit"
            /\ UNCHANGED exit_status
       ELSE /\ stderr' = Append(stderr, TracebackMessage(exc[1]))
            /\ exit_status' = Some(1)
            /\ pc' = "exited"
            /\ UNCHANGED steps
    /\ UNCHANGED <<argv, args, ydl_opts, constructed, downloads, closes, raised,
                   exc, stdout>>

(* mutant: the handler ends the process with status 0 *)
SysExit_Zero ==
    /\ pc = "sys_exit"
    /\ Did("sys_exit")
    /\ exit_status' = Some(0)
    /\ pc' = "exited"
    /\ UNCHANGED <<argv, args, ydl_opts, constructed, downloads, closes, raised,
                   exc, stdout, stderr>>

(* line 57: sys.exit(1) *)
SysExit ==
    /\ pc = "sys_exit"
    /\ Did("sys_exit")
    /\ exit_status' = Some(1)
    /\ pc' = "exited"
    /\ UNCHANGED <<argv, args, ydl_opts, constructed, downloads, closes, raised,
                   exc, stdout, stderr>>

(* download_audio and main return; the script ends with status 0           *)
Return ==
    /\ pc = "return"
    /\ Did("return")
    /\ exit_status' = Some(0)
    /\ pc' = "exited"
    /\ UNCHANGED <<argv, args, ydl_opts, constructed, downloads, closes, raised,
                   exc, stdout, stderr>>

(* the script's own statements *)
ScriptStep ==
    \/ ParseArgs
    \/ BuildOptions
    \/ SetFfmpegLocation
    \/ Construct
    \/ PrintDownloading
    \/ DownloadCall
    \/ PrintComplete
    \/ ExitContext
    \/ ExceptHandler
    \/ SysExit
    \/ Return

Next ==
    \/ ParseArgs
    \/ BuildOptions
    \/ SetFfmpegLocation
    \/ Construct
    \/ PrintDownloading
    \/ DownloadCall
    \/ DownloadReturns
    \/ DownloadRaises
    \/ PrintComplete
    \/ ExitContext
    \/ ExceptHandler
    \/ SysExit
    \/ Return

Spec == Init /\ [][Next]_vars

(* The interpreter keeps executing the script's statements; nothing is     *)
(* assumed about when, or whether, the collaborator's download answers.    *)
FairSpec == Spec /\ WF_vars(ScriptStep)

---------------------------------------------------------------------------
(* Vocabulary of the properties                                            *)

Parsed == args # <<>>

Exited == pc = "exited"

ExitedWith(n) == exit_status = Some(n)

Stepped(step) == step \in Range(steps)

LastRaised == raised[Len(raised)].e

FlagAt(flags) == {i \in 1..Len(argv) : argv[i] \in flags}

Highest(S) == CHOOSE i \in S : \A j \in S : j <= i

(* the value given with the last occurrence of one of flags on the command line *)
Supplied(flags) == argv[Highest(FlagAt(flags)) + 1]

(* the positional tokens of the command line *)
Positionals ==
    {i \in 1..Len(argv) : argv[i] \notin OptionStrings
                          /\ (i = 1 \/ argv[i - 1] \notin OptionStrings)}

---------------------------------------------------------------------------
(* C1: for every run whose arguments parse, the exit status is 0 exactly   *)
(* when no call of the collaborator raised and 1 exactly when an error was *)
(* caught by the handler; no other status is produced.                     *)
C1_ExitStatus ==
    (Parsed /\ Exited) =>
        /\ exit_status \in {Some(0), Some(1)}
        /\ ExitedWith(0) <=> raised = <<>>
        /\ ExitedWith(1) <=> Stepped("print_error")
        /\ Stepped("print_error") <=> raised # <<>>

C1_Witness ==
    /\ Parsed /\ Exited /\ ExitedWith(1)
    /\ Len(raised) = 1 /\ raised[1].by = "download"

---------------------------------------------------------------------------
ErrorTexts == {f.msg : f \in Failures} \cup {ErrorMessage(f) : f \in Failures}

(* C2 as stated: every failure the collaborator raised in the run is       *)
(* caught, has its message on the error stream and not on standard output, *)
(* and the process ends with a non-zero status.                            *)
C2_EveryFailurePrinted ==
    (Parsed /\ Exited /\ raised # <<>>) =>
        /\ Stepped("print_error")
        /\ \A i \in DOMAIN raised : ErrorMessage(raised[i].e) \in Range(stderr)
        /\ Range(stdout) \cap ErrorTexts = {}
        /\ exit_status \notin {None, Some(0)}

(* C2, amended: whenever the collaborator raises, the failure that reaches *)
(* the handler (the last one raised in the run) is caught whatever its     *)
(* kind, its message is the one line written to the error stream, verbatim *)
(* after "Error: ", nothing of it goes to standard output, and the process *)
(* ends with status 1.                                                     *)
C2_FailureReported ==
    /\ pc = "except" => (exc = Some(LastRaised) /\ Catches(ExceptClause, exc[1]))
    /\ (Parsed /\ Exited /\ raised # <<>>) =>
          /\ Stepped("print_error")
          /\ stderr = << "Error: " \o LastRaised.msg >>
          /\ Range(stdout) \cap ErrorTexts = {}
          /\ ExitedWith(1)

C2_Witness ==
    /\ Parsed /\ Exited
    /\ Len(raised) = 2
    /\ raised[1].by = "download" /\ raised[2].by = "__exit__"
    /\ raised[1].e.msg # raised[2].e.msg
    /\ stderr = << ErrorMessage(raised[2].e) >>

---------------------------------------------------------------------------
FfmpegFlag == {"--ffmpeg-location"}

OutputFlags == {"-o", "--output"}

(* C4 as stated: whenever --ffmpeg-location PATH is supplied, the options  *)
(* given to YoutubeDL hold ffmpeg_location = PATH, for every PATH.         *)
C4_EveryPathRouted ==
    (constructed # <<>> /\ FlagAt(FfmpegFlag) # {}) =>
        /\ "ffmpeg_location" \in DOMAIN constructed[1]
        /\ constructed[1].ffmpeg_location = Supplied(FfmpegFlag)

(* C4, amended: whenever --ffmpeg-location PATH is supplied with a         *)
(* non-empty PATH (the last one, when the option is repeated), the options *)
(* given to YoutubeDL hold ffmpeg_location = PATH; with an empty PATH, as  *)
(* with the option omitted, they hold no ffmpeg_location entry.            *)
C4_NonEmptyPathRouted ==
    constructed # <<>> =>
        IF FlagAt(FfmpegFlag) # {} /\ Supplied(FfmpegFlag) # ""
        THEN /\ "ffmpeg_location" \in DOMAIN constructed[1]
             /\ constructed[1].ffmpeg_location = Supplied(FfmpegFlag)
        ELSE "ffmpeg_location" \notin DOMAIN constructed[1]

C4_Witness ==
    /\ constructed # <<>>
    /\ FlagAt(FfmpegFlag) # {}
    /\ Supplied(FfmpegFlag) = "music"
    /\ constructed[1].ffmpeg_location = "music"

---------------------------------------------------------------------------
TemplateSuffix == "/%(title)s.%(ext)s"

OutputDirGiven == IF FlagAt(OutputFlags) = {} THEN "." ELSE Supplied(OutputFlags)

(* C5: the output directory handed to download_audio, and with it the      *)
(* directory part of the output template, is "." when -o/--output is       *)
(* omitted and DIR, unchanged, when -o DIR is given.                       *)
C5_OutputDirectory ==
    /\ Parsed => args.output = OutputDirGiven
    /\ ydl_opts # <<>> => ydl_opts.outtmpl = OutputDirGiven \o TemplateSuffix
    /\ constructed # <<>> => constructed[1].outtmpl = OutputDirGiven \o TemplateSuffix

C5_Witness ==
    /\ constructed # <<>>
    /\ FlagAt(OutputFlags) = {}
    /\ constructed[1].outtmpl = "./%(title)s.%(ext)s"

---------------------------------------------------------------------------
(* C6: for every input, the options given to the collaborator ask for the  *)
(* best available audio, name the output output_dir "/" title "." ext,     *)
(* hold exactly one post-processing step (audio extraction to MP3 at       *)
(* quality 192) and disable playlist expansion; the url and the ffmpeg     *)
(* location change none of the four.                                       *)
C6_FixedOptions ==
    \A i \in DOMAIN constructed :
        /\ constructed[i].format = "bestaudio/best"
        /\ constructed[i].outtmpl = args.output \o "/" \o "%(title)s" \o "." \o "%(ext)s"
        /\ Len(constructed[i].postprocessors) = 1
        /\ constructed[i].postprocessors[1] =
              [key |-> "FFmpegExtractAudio", preferredcodec |-> "mp3",
               preferredquality |-> "192"]
        /\ constructed[i].noplaylist = TRUE

C6_Witness ==
    /\ constructed # <<>>
    /\ "ffmpeg_location" \in DOMAIN constructed[1]
    /\ args.url # "" /\ args.output = "music"
    /\ constructed[1].outtmpl = "music/%(title)s.%(ext)s"

---------------------------------------------------------------------------
AfterFailure == {"__exit__", "print_error", "sys_exit"}

(* C7: in every run download is called at most once, with a list holding   *)
(* exactly the url of the command line, unchanged; no url that parses is   *)
(* rejected locally; once the collaborator has raised, download is not     *)
(* called again and the script does nothing but leave the with block,      *)
(* report and exit.                                                        *)
C7_SingleDelegation ==
    /\ [](/\ Len(downloads) <= 1
          /\ Parsed => Cardinality(Positionals) = 1
          /\ \A i \in DOMAIN downloads :
                downloads[i].urls = << argv[CHOOSE p \in Positionals : TRUE] >>
          /\ (Parsed /\ Exited /\ \A i \in DOMAIN raised : raised[i].by # "YoutubeDL")
                => Len(downloads) = 1)
    /\ [][/\ Len(downloads') > Len(downloads) => raised = <<>>
          /\ raised # <<>> =>
                /\ constructed' = constructed
                /\ steps' \in {steps} \cup {Append(steps, s) : s \in AfterFailure}]_vars

C7_Witness ==
    /\ Exited
    /\ Len(downloads) = 1 /\ downloads[1].outcome = "raised"
    /\ downloads[1].urls = << "" >>
    /\ closes = 1

---------------------------------------------------------------------------
Order ==
    << "parse_args", "build_opts", "ffmpeg_location", "YoutubeDL", "print_downloading",
       "download", "print_complete", "__exit__", "print_error", "sys_exit", "return" >>

Rank(step) == CHOOSE i \in DOMAIN Order : Order[i] = step

Requires(later, earlier) == Stepped(later) => Stepped(earlier)

(* C8: the statements run in one fixed order and none runs twice: parsing, *)
(* then the options, then the optional ffmpeg_location entry, then the     *)
(* construction of the collaborator (with the finished options), then the  *)
(* "Downloading and converting" message, then the download; the completion *)
(* message is printed only after the download returned without raising.    *)
C8_LinearControlFlow ==
    /\ \A i, j \in DOMAIN steps : i < j => Rank(steps[i]) < Rank(steps[j])
    /\ Requires("build_opts", "parse_args")
    /\ Requires("ffmpeg_location", "build_opts")
    /\ Requires("YoutubeDL", "ffmpeg_location")
    /\ Requires("print_downloading", "YoutubeDL")
    /\ Requires("download", "print_downloading")
    /\ Requires("print_complete", "download")
    /\ constructed # <<>> => (Stepped("ffmpeg_location") /\ constructed = <<ydl_opts>>)
    /\ downloads # <<>> => stdout[1] = DownloadingMessage(args.url)
    /\ (Parsed /\ CompleteMessage(args.output) \in Range(stdout)) =>
          /\ Stepped("print_complete")
          /\ downloads[1].outcome = "returned"
          /\ \A i \in DOMAIN raised : raised[i].by = "__exit__"

C8_Witness ==
    /\ Exited /\ ExitedWith(0)
    /\ steps = << "parse_args", "build_opts", "ffmpeg_location", "YoutubeDL",
                  "print_downloading", "download", "print_complete", "__exit__",
                  "return" >>
    /\ "ffmpeg_location" \in DOMAIN ydl_opts

---------------------------------------------------------------------------
(* C9: success and failure reports exclude each other: in no run is the    *)
(* "Download complete!" message printed and then an error written to the   *)
(* error stream or the process ended with status 1, also when the failure  *)
(* is raised while the collaborator's context is closed.                   *)
C9_ReportsExclusive ==
    (Parsed /\ CompleteMessage(args.output) \in Range(stdout)) =>
        /\ stderr = <<>>
        /\ ~ExitedWith(1)

---------------------------------------------------------------------------
Pending == \E i \in DOMAIN downloads : downloads[i].outcome = "pending"

Answered == \E i \in DOMAIN downloads : downloads[i].outcome # "pending"

Terminal ==
    /\ Exited
    /\ \/ /\ ExitedWith(0)
          /\ stdout # <<>> /\ stdout[Len(stdout)] = CompleteMessage(args.output)
       \/ /\ ExitedWith(1)
          /\ raised # <<>>
          /\ stderr # <<>> /\ stderr[Len(stderr)] = ErrorMessage(LastRaised)

(* C10: the script blocks on the collaborator and has no timeout or        *)
(* cancellation of its own: while the download call is pending the script  *)
(* stays in it, and once the call has returned or raised the process       *)
(* eventually ends, with status 0 after the completion message or with     *)
(* status 1 after the error message.                                       *)
C10_BlocksThenTerminates ==
    /\ [](Pending => (pc = "in_download" /\ exit_status = None))
    /\ Answered ~> Terminal

C10_Witness ==
    /\ downloads # <<>> /\ downloads[1].outcome = "returned"
    /\ Terminal /\ ExitedWith(1)

=============================================================================
